---- MODULE Spec2Model ----
(***************************************************************************)
(* A model of packages/starlight-llms-txt/entryToSimpleMarkdown.ts: the    *)
(* HTML-to-Markdown pipeline of starlight-llms-txt.  A page is a hast tree *)
(* kept as a heap of nodes (a node is named by its index, so that sharing  *)
(* one node object between two parents is visible); the four tree          *)
(* transformers, the serializer boundary and the final string pass are one *)
(* action each.                                                            *)
(***************************************************************************)
EXTENDS Naturals, Sequences, FiniteSets, TLC

VARIABLES
    pc,            \* position in entryToSimpleMarkdown / the unified pipeline
    entry,         \* the collection entry: [isMdx, body]
    rawMDX,        \* starlightLllmsTxtContext.rawMDX
    shouldMinify,  \* the shouldMinify argument
    minify,        \* the resolved minification options
    tree,          \* the hast tree being processed (heap; the root is node 1)
    prev,          \* the tree as it was when the last transformer started
    stringified,   \* the text remark-stringify yields for this page
    markdown       \* the value returned by entryToSimpleMarkdown

vars == <<pc, entry, rawMDX, shouldMinify, minify, tree, prev, stringified, markdown>>

(***************************************************************************)
(* Bounds of the explored inputs.                                          *)
(***************************************************************************)
MaxMinifyNodes == 3
MaxTreeNodes == 4
MaxLines == 2
MaxTabs == 2
MaxTextLen == 4

Range(s) == {s[i] : i \in DOMAIN s}
Min(a, b) == IF a < b THEN a ELSE b

(***************************************************************************)
(* hast nodes.  properties = className, role, dataLanguage.  A text value  *)
(* is a sequence of characters.                                            *)
(***************************************************************************)
NoValue == <<>>
RootId == 1

RootNode(kids) ==
    [type |-> "root", tagName |-> "", className |-> <<>>, role |-> "",
     dataLanguage |-> "", value |-> NoValue, children |-> kids]
Element(tag, cls, role, lang, kids) ==
    [type |-> "element", tagName |-> tag, className |-> cls, role |-> role,
     dataLanguage |-> lang, value |-> NoValue, children |-> kids]
Text(v) ==
    [type |-> "text", tagName |-> "", className |-> <<>>, role |-> "",
     dataLanguage |-> "", value |-> v, children |-> <<>>]

HasClass(node, c) == c \in Range(node.className)

(***************************************************************************)
(* hast-util-select.  A selector is a comma list (a set) of compound       *)
(* selectors [tag, classes, notClasses, role]; tag "*" is any tag.         *)
(***************************************************************************)
Compound(tag, classes, notClasses, role) ==
    [tag |-> tag, classes |-> classes, notClasses |-> notClasses, role |-> role]

Selector(s) ==
    CASE s = "details" -> {Compound("details", {}, {}, "")}
      [] s = ".ad" -> {Compound("*", {"ad"}, {}, "")}
      [] s = ".starlight-aside" -> {Compound("*", {"starlight-aside"}, {}, "")}
      [] s = ".starlight-aside--note" -> {Compound("*", {"starlight-aside--note"}, {}, "")}
      [] s = ".starlight-aside--tip" -> {Compound("*", {"starlight-aside--tip"}, {}, "")}
      [] s = ".starlight-aside--caution" -> {Compound("*", {"starlight-aside--caution"}, {}, "")}
      [] s = ".starlight-aside--danger" -> {Compound("*", {"starlight-aside--danger"}, {}, "")}
      [] s = ".expressive-code" -> {Compound("*", {"expressive-code"}, {}, "")}
      [] s = "figcaption" -> {Compound("figcaption", {}, {}, "")}
      [] s = "span.sr-only" -> {Compound("span", {"sr-only"}, {}, "")}
      [] s = "pre" -> {Compound("pre", {}, {}, "")}
      [] s = "code" -> {Compound("code", {}, {}, "")}
      [] s = "div.ec-line.ins, div.ec-line.del" ->
            {Compound("div", {"ec-line", "ins"}, {}, ""),
             Compound("div", {"ec-line", "del"}, {}, "")}
      [] s = "span:not(.indent)" -> {Compound("span", {}, {"indent"}, "")}
      [] s = "starlight-tabs" -> {Compound("starlight-tabs", {}, {}, "")}
      [] s = "[role=tab]" -> {Compound("*", {}, {}, "tab")}
      [] s = "[role=tabpanel]" -> {Compound("*", {}, {}, "tabpanel")}
      [] s = "starlight-file-tree" -> {Compound("starlight-file-tree", {}, {}, "")}
      [] s = ".sr-only" -> {Compound("*", {"sr-only"}, {}, "")}

\* matches(selector, node): the node alone is looked at, never its ancestry.
matches(s, node) ==
    /\ node.type = "element"
    /\ \E c \in Selector(s) :
          /\ c.tag \in {"*", node.tagName}
          /\ \A k \in c.classes : HasClass(node, k)
          /\ \A k \in c.notClasses : ~HasClass(node, k)
          /\ c.role \in {"", node.role}

AppendNew(seq, x) == IF x \in Range(seq) THEN seq ELSE Append(seq, x)

\* selectAll(selector, tree): the matching nodes of the subtree at `id`, the
\* node itself included, in preorder.
RECURSIVE Walk(_, _, _, _)
RECURSIVE WalkChildren(_, _, _, _, _)
Walk(h, s, id, found) ==
    LET here == IF matches(s, h[id]) THEN AppendNew(found, id) ELSE found
    IN WalkChildren(h, s, h[id].children, 1, here)
WalkChildren(h, s, kids, i, found) ==
    IF i > Len(kids) THEN found
    ELSE WalkChildren(h, s, kids, i + 1, Walk(h, s, kids[i], found))

selectAll(s, h, id) == Walk(h, s, id, <<>>)

\* select(selector, tree): the first match, or 0 for none.
select(s, h, id) ==
    LET all == selectAll(s, h, id) IN IF all = <<>> THEN 0 ELSE all[1]

\* Array.prototype.findIndex over a child list (0 for -1).
RECURSIVE findIndex(_, _, _, _)
findIndex(h, kids, s, i) ==
    IF i > Len(kids) THEN 0
    ELSE IF matches(s, h[kids[i]]) THEN i
    ELSE findIndex(h, kids, s, i + 1)

(***************************************************************************)
(* Module-level configuration (lines 15-29).                               *)
(***************************************************************************)
minifyDefaults ==
    [note |-> TRUE, tip |-> TRUE, caution |-> FALSE, danger |-> FALSE,
     details |-> TRUE, whitespace |-> TRUE, customSelectors |-> <<>>]

\* { ...minifyDefaults, ...starlightLllmsTxtContext.minify }
\* The user's options are the keys given and a value for each of them.
ResolveMinify(user) ==
    [k \in DOMAIN minifyDefaults |->
        IF k \in user.given THEN user.value[k] ELSE minifyDefaults[k]]

\* const selectors = [...minify.customSelectors]; details is unshifted.
selectors(cfg) ==
    IF cfg.details THEN <<"details">> \o cfg.customSelectors
    ELSE cfg.customSelectors

Variants == <<"note", "tip", "caution", "danger">>

(***************************************************************************)
(* The test functions handed to unist-util-remove.                         *)
(***************************************************************************)
MinifyTestNoAsides(cfg, node) ==
    \E i \in DOMAIN selectors(cfg) : matches(selectors(cfg)[i], node)

MinifyTest(cfg, node) ==
    \/ \E i \in DOMAIN selectors(cfg) : matches(selectors(cfg)[i], node)
    \/ /\ matches(".starlight-aside", node)
       /\ \E i \in DOMAIN Variants :
             /\ cfg[Variants[i]]
             /\ matches(".starlight-aside--" \o Variants[i], node)

SrOnlyTest(node) == matches(".sr-only", node)

Test(t, node) ==
    IF t.kind = "minify" THEN MinifyTest(t.cfg, node) ELSE SrOnlyTest(node)

(***************************************************************************)
(* unist-util-remove 4 (cascade: true, the default).  The node handed in is *)
(* never tested and never dropped; a node whose test passes is dropped     *)
(* with its subtree; a node that had children and lost them all is dropped *)
(* too.                                                                    *)
(***************************************************************************)
RECURSIVE preorder(_, _, _, _)
RECURSIVE preorderChildren(_, _, _, _, _, _)
preorder(h, id, top, t) ==
    IF id # top /\ Test(t, h[id]) THEN [keep |-> FALSE, heap |-> h]
    ELSE IF h[id].type # "text" /\ Len(h[id].children) > 0
    THEN LET r == preorderChildren(h, h[id].children, top, t, 1, <<>>)
         IN IF id # top /\ r.living = <<>>
            THEN [keep |-> FALSE, heap |-> r.heap]
            ELSE [keep |-> TRUE,
                  heap |-> [r.heap EXCEPT ![id].children = r.living]]
    ELSE [keep |-> TRUE, heap |-> h]
preorderChildren(h, kids, top, t, i, living) ==
    IF i > Len(kids) THEN [heap |-> h, living |-> living]
    ELSE LET r == preorder(h, kids[i], top, t)
         IN preorderChildren(r.heap, kids, top, t, i + 1,
                IF r.keep THEN Append(living, kids[i]) ELSE living)

remove(h, top, t) == preorder(h, top, top, t).heap

(***************************************************************************)
(* minifyLlmsTxt (lines 37-65).                                            *)
(***************************************************************************)
minifyLlmsTxtAlways(h, requested, cfg) ==
    remove(h, RootId, [kind |-> "minify", cfg |-> cfg])

minifyLlmsTxt(h, requested, cfg) ==
    IF ~requested THEN h
    ELSE remove(h, RootId, [kind |-> "minify", cfg |-> cfg])

(***************************************************************************)
(* improveExpressiveCodeHandling (lines 66-110).                           *)
(***************************************************************************)
\* Lines 71-79: drop the first span.sr-only child of the figcaption.
spliceOut(seq, i) == SubSeq(seq, 1, i - 1) \o SubSeq(seq, i + 1, Len(seq))

stripTerminalLabel(h, instance) ==
    LET figcaption == select("figcaption", h, instance)
        idx == IF figcaption = 0 THEN 0
               ELSE findIndex(h, h[figcaption].children, "span.sr-only", 1)
    IN IF idx > 0
       THEN [h EXCEPT ![figcaption].children = spliceOut(@, idx)]
       ELSE h

\* Lines 95-105: prefix the first text run of one flagged line.  A line in
\* diffLines is an element with a class list, so lines 96-98 never skip it.
markLine(h, line) ==
    LET marker == IF HasClass(h[line], "ins") THEN "+" ELSE "-"
        span == select("span:not(.indent)", h, line)
        firstChild == IF span = 0 \/ h[span].children = <<>> THEN 0
                      ELSE h[span].children[1]
    IN IF firstChild # 0 /\ h[firstChild].type = "text"
       THEN [h EXCEPT ![firstChild].value = <<marker>> \o @]
       ELSE h

RECURSIVE markLines(_, _, _)
markLines(h, lines, i) ==
    IF i > Len(lines) THEN h
    ELSE markLines(markLine(h, lines[i]), lines, i + 1)

\* Lines 87-90.
diffLinesOf(h, pre, code) ==
    IF h[pre].dataLanguage = "diff" THEN <<>>
    ELSE SelectSeq(h[code].children,
                   LAMBDA k : matches("div.ec-line.ins, div.ec-line.del", h[k]))

\* Lines 91-92 with the class always language-diff.
languageClassDiff(lang) == "language-diff"

\* Line 92: `language-${pre.properties.dataLanguage}`.
languageClass(lang) == "language-" \o lang

\* Lines 80-107.  className is kept as a list on every node, which is what
\* line 85 establishes for the code element before the push.
setLanguage(h, instance) ==
    LET pre == select("pre", h, instance)
        code == select("code", h, instance)
    IN IF pre # 0 /\ code # 0 /\ h[pre].dataLanguage # ""
       THEN LET diffLines == diffLinesOf(h, pre, code)
            IN IF Len(diffLines) = 0
               THEN [h EXCEPT ![code].className =
                        Append(@, languageClass(h[pre].dataLanguage))]
               ELSE markLines(
                        [h EXCEPT ![code].className = Append(@, "language-diff")],
                        diffLines, 1)
       ELSE h

RECURSIVE eachCodeInstance(_, _, _)
eachCodeInstance(h, instances, i) ==
    IF i > Len(instances) THEN h
    ELSE eachCodeInstance(
            setLanguage(stripTerminalLabel(h, instances[i]), instances[i]),
            instances, i + 1)

improveExpressiveCodeHandling(h) ==
    eachCodeInstance(h, selectAll(".expressive-code", h, RootId), 1)

(***************************************************************************)
(* Strings: String.prototype.trim and replace(/\s+/g, ' ').                *)
(***************************************************************************)
Whitespace == {" ", "\n", "\t"}

RECURSIVE trimStart(_)
trimStart(s) ==
    IF s # <<>> /\ s[1] \in Whitespace THEN trimStart(Tail(s)) ELSE s
RECURSIVE trimEnd(_)
trimEnd(s) ==
    IF s # <<>> /\ s[Len(s)] \in Whitespace
    THEN trimEnd(SubSeq(s, 1, Len(s) - 1)) ELSE s
trim(s) == trimEnd(trimStart(s))

\* replace(/\s/g, ' '): each whitespace character, not each run.
collapseEachCharacter(s) ==
    [i \in DOMAIN s |-> IF s[i] \in Whitespace THEN " " ELSE s[i]]

\* replace(/\s+/g, ' '): every maximal whitespace run becomes one space.
RECURSIVE collapseFrom(_, _, _)
collapseFrom(s, i, out) ==
    IF i > Len(s) THEN out
    ELSE IF s[i] \in Whitespace
    THEN collapseFrom(s, i + 1,
            IF i > 1 /\ s[i - 1] \in Whitespace THEN out ELSE Append(out, " "))
    ELSE collapseFrom(s, i + 1, Append(out, s[i]))
collapseWhitespace(s) == collapseFrom(s, 1, <<>>)

(***************************************************************************)
(* improveTabsHandling (lines 111-149).                                    *)
(***************************************************************************)
\* Lines 127-130: the trimmed, non-empty text children of the tab, joined.
RECURSIVE joinTrimmed(_, _, _, _)
joinTrimmed(h, kids, i, out) ==
    IF i > Len(kids) THEN out
    ELSE joinTrimmed(h, kids, i + 1,
            IF h[kids[i]].type = "text" /\ trim(h[kids[i]].value) # <<>>
            THEN out \o trim(h[kids[i]].value) ELSE out)
tabLabel(h, tab) == joinTrimmed(h, h[tab].children, 1, <<>>)

\* Line 122 with the loop stopping one pair early.
pairCountOneShort(tabs, panels) ==
    IF Min(Len(tabs), Len(panels)) = 0 THEN 0
    ELSE Min(Len(tabs), Len(panels)) - 1

\* Line 122: Math.min(tabs.length, panels.length).
pairCount(tabs, panels) == Min(Len(tabs), Len(panels))

\* Lines 132-145: push one <li><p>label</p>panel</li>; three nodes are new.
pushItem(h, instance, tab, panel) ==
    LET text == Len(h) + 1
        p == Len(h) + 2
        li == Len(h) + 3
        grown == h \o << Text(tabLabel(h, tab)),
                         Element("p", <<>>, "", "", <<text>>),
                         Element("li", <<>>, "", "", <<p, panel>>) >>
    IN [grown EXCEPT ![instance].children = Append(@, li)]

RECURSIVE pushItems(_, _, _, _, _)
pushItems(h, instance, tabs, panels, i) ==
    IF i > pairCount(tabs, panels) THEN h
    ELSE IF i > Len(tabs) \/ i > Len(panels)      \* if (!tab || !panel) continue
    THEN pushItems(h, instance, tabs, panels, i + 1)
    ELSE pushItems(pushItem(h, instance, tabs[i], panels[i]),
                   instance, tabs, panels, i + 1)

\* Lines 115-146 for one instance.
flattenTabs(h, instance) ==
    LET tabs == selectAll("[role=tab]", h, instance)
        panels == selectAll("[role=tabpanel]", h, instance)
        list == [h EXCEPT ![instance] = Element("ul", <<>>, "", "", <<>>)]
    IN pushItems(list, instance, tabs, panels, 1)

RECURSIVE eachTabsInstance(_, _, _)
eachTabsInstance(h, instances, i) ==
    IF i > Len(instances) THEN h
    ELSE eachTabsInstance(flattenTabs(h, instances[i]), instances, i + 1)

improveTabsHandling(h) ==
    eachTabsInstance(h, selectAll("starlight-tabs", h, RootId), 1)

(***************************************************************************)
(* improveFileTreeHandling (lines 150-161).                                *)
(***************************************************************************)
RECURSIVE eachFileTree(_, _, _)
eachFileTree(h, trees, i) ==
    IF i > Len(trees) THEN h
    ELSE eachFileTree(remove(h, trees[i], [kind |-> "srOnly"]), trees, i + 1)

\* Line 152 with select for selectAll: the first widget alone.
improveFirstFileTreeOnly(h) ==
    LET first == select("starlight-file-tree", h, RootId)
    IN IF first = 0 THEN h ELSE remove(h, first, [kind |-> "srOnly"])

improveFileTreeHandling(h) ==
    eachFileTree(h, selectAll("starlight-file-tree", h, RootId), 1)

(***************************************************************************)
(* Input pages.  A generic page is an ordered tree of n nodes under the    *)
(* root, given by a preorder parent vector (0 is the root) and a label per *)
(* node; node i of the page is heap node i + 1.                            *)
(***************************************************************************)
RECURSIVE AncestorsOrSelf(_, _)
AncestorsOrSelf(parent, i) ==
    IF i = 0 THEN {0} ELSE {i} \cup AncestorsOrSelf(parent, parent[i])

Shapes(n) ==
    {parent \in [1..n -> 0..(n - 1)] :
        \A i \in 1..n :
            /\ parent[i] < i
            /\ i > 1 => parent[i] \in AncestorsOrSelf(parent, i - 1)}

ChildrenOf(parent, n, j) ==
    LET ids == SelectSeq([i \in 1..n |-> i], LAMBDA i : parent[i] = j)
    IN [k \in DOMAIN ids |-> ids[k] + 1]

BuildTree(parent, label, n) ==
    <<RootNode(ChildrenOf(parent, n, 0))>> \o
    [i \in 1..n |-> [label[i] EXCEPT !.children = ChildrenOf(parent, n, i)]]

\* Every page of at most `max` nodes over `palette`; text nodes are leaves.
PagesOfSize(palette, n) ==
    {BuildTree(pl[1], pl[2], n) :
        pl \in {sl \in Shapes(n) \X [1..n -> palette] :
                  \A i \in 1..n :
                      sl[1][i] # 0 => sl[2][sl[1][i]].type # "text"}}

Pages(palette, max) == UNION {PagesOfSize(palette, n) : n \in 0..max}

\* The fragment before anything is parsed.
EmptyTree == <<RootNode(<<>>)>>

\* An entry whose id ends in .mdx or not, with its raw body (hasBody is
\* false for an entry without one) and the tree its rendered HTML parses to.
Entry(isMdx, hasBody, body, html) ==
    [isMdx |-> isMdx, hasBody |-> hasBody, body |-> body, html |-> html]

InitWith(entries, rawFlags, minifyFlags, userOptions, outputs) ==
    /\ pc = "start"
    /\ entry \in entries
    /\ rawMDX \in rawFlags
    /\ shouldMinify \in minifyFlags
    /\ minify \in {ResolveMinify(u) : u \in userOptions}
    /\ tree = EmptyTree
    /\ prev = EmptyTree
    /\ stringified \in outputs
    /\ markdown = <<>>

(***************************************************************************)
(* entryToSimpleMarkdown (lines 167-191) and the pipeline (lines 35-164).  *)
(***************************************************************************)
\* Line 175 with && for ||.
bypassBoth(e, raw) == e.isMdx /\ raw

\* Line 175.
bypass(e, raw) == e.isMdx \/ raw

\* Lines 175-178: return entry.body || ''.
ReturnRawBody ==
    /\ pc = "start"
    /\ bypass(entry, rawMDX)
    /\ markdown' = IF entry.hasBody THEN entry.body ELSE <<>>
    /\ pc' = "returnedBody"
    /\ UNCHANGED <<entry, rawMDX, shouldMinify, minify, tree, prev, stringified>>

\* Lines 180-185 and 36: render the entry and parse the HTML fragment.
RenderAndParse ==
    /\ pc = "start"
    /\ ~bypass(entry, rawMDX)
    /\ tree' = entry.html
    /\ prev' = entry.html
    /\ pc' = "parsed"
    /\ UNCHANGED <<entry, rawMDX, shouldMinify, minify, stringified, markdown>>

Transform(from, to, result) ==
    /\ pc = from
    /\ prev' = tree
    /\ tree' = result
    /\ pc' = to
    /\ UNCHANGED <<entry, rawMDX, shouldMinify, minify, stringified, markdown>>

MinifyLlmsTxt ==
    Transform("parsed", "minified", minifyLlmsTxt(tree, shouldMinify, minify))

ImproveExpressiveCodeHandling ==
    Transform("minified", "code", improveExpressiveCodeHandling(tree))

ImproveTabsHandling ==
    Transform("code", "tabs", improveTabsHandling(tree))

ImproveFileTreeHandling ==
    Transform("tabs", "fileTree", improveFileTreeHandling(tree))

\* Lines 162-164: rehype-remark, remark-gfm, remark-stringify.
Stringify ==
    /\ pc = "fileTree"
    /\ pc' = "stringified"
    /\ UNCHANGED <<entry, rawMDX, shouldMinify, minify, tree, prev, stringified, markdown>>

\* Lines 186-190.
finish(text, requested, cfg) ==
    IF requested /\ cfg.whitespace THEN collapseWhitespace(trim(text))
    ELSE trim(text)

TrimAndCollapse ==
    /\ pc = "stringified"
    /\ markdown' = finish(stringified, shouldMinify, minify)
    /\ pc' = "returnedMarkdown"
    /\ UNCHANGED <<entry, rawMDX, shouldMinify, minify, tree, prev, stringified>>

Next ==
    \/ ReturnRawBody
    \/ RenderAndParse
    \/ MinifyLlmsTxt
    \/ ImproveExpressiveCodeHandling
    \/ ImproveTabsHandling
    \/ ImproveFileTreeHandling
    \/ Stringify
    \/ TrimAndCollapse

(***************************************************************************)
(* Pages for the Minify Filter: details, asides, a plain container, text.  *)
(***************************************************************************)
Aside(variant) ==
    Element("aside", <<"starlight-aside", "starlight-aside--" \o variant>>, "", "", <<>>)

\* Every kind of node the filter tells apart.
MinifyPalette ==
    {Element("details", <<>>, "", "", <<>>),
     Element("div", <<"ad">>, "", "", <<>>),
     Element("div", <<>>, "", "", <<>>),
     Text(<<"a">>)}
    \cup {Aside(Variants[i]) : i \in DOMAIN Variants}

\* The same with one variant of aside, for the larger pages.
NotePalette == {n \in MinifyPalette : \A i \in 2..Len(Variants) : n # Aside(Variants[i])}

\* User options: any subset of `keys` given, any value for each.
Options(keys, custom) ==
    {[given |-> g, value |-> v] :
        g \in SUBSET keys,
        v \in [note : BOOLEAN, tip : BOOLEAN, caution : BOOLEAN,
               danger : BOOLEAN, details : BOOLEAN, whitespace : BOOLEAN,
               customSelectors : custom]}

NoOptions == {[given |-> {}, value |-> minifyDefaults]}

MinifyOptions ==
    Options({"note", "tip", "caution", "danger", "details", "customSelectors"},
            {<<>>, <<".ad">>})

NoteOptions == Options({"note", "details", "customSelectors"}, {<<>>, <<".ad">>})

PlainEntries(pages) == {Entry(FALSE, TRUE, <<"a">>, t) : t \in pages}

BypassedEntries ==
    {Entry(TRUE, TRUE, <<"a">>, EmptyTree)}

InitBypassed ==
    InitWith(BypassedEntries, BOOLEAN, BOOLEAN, NoOptions, {<<"a">>})

\* Pages of two nodes of every kind under every configuration, and pages of
\* up to MaxMinifyNodes nodes with one variant of aside.
InitMinify ==
    \/ InitBypassed
    \/ InitWith(PlainEntries(Pages(MinifyPalette, 2)),
                {FALSE}, BOOLEAN, MinifyOptions, {<<"a">>})
    \/ InitWith(PlainEntries(Pages(NotePalette, MaxMinifyNodes)),
                {FALSE}, BOOLEAN, NoteOptions, {<<"a">>})

SpecMinify == InitMinify /\ [][Next]_vars

(***************************************************************************)
(* Pages written as nested markup, [node, kids], laid out in preorder.     *)
(***************************************************************************)
Markup(node, kids) == [node |-> node, kids |-> kids]

RECURSIVE Size(_)
RECURSIVE SizeOfFirst(_, _)
Size(m) == 1 + SizeOfFirst(m.kids, Len(m.kids))
SizeOfFirst(ms, k) == IF k = 0 THEN 0 ELSE SizeOfFirst(ms, k - 1) + Size(ms[k])

\* The nodes of m, of which the first gets index id.
RECURSIVE Layout(_, _)
RECURSIVE LayoutAll(_, _, _)
Layout(m, id) ==
    LET ids == [k \in 1..Len(m.kids) |-> id + 1 + SizeOfFirst(m.kids, k - 1)]
    IN <<[m.node EXCEPT !.children = ids]>> \o LayoutAll(m.kids, ids, 1)
LayoutAll(ms, ids, k) ==
    IF k > Len(ms) THEN <<>>
    ELSE Layout(ms[k], ids[k]) \o LayoutAll(ms, ids, k + 1)

Fragment(ms) == Layout(Markup(RootNode(<<>>), ms), RootId)

El(tag, cls, kids) == Markup(Element(tag, cls, "", "", <<>>), kids)
Tx(v) == Markup(Text(v), <<>>)
Paragraph(v) == El("p", <<>>, <<Tx(v)>>)

(***************************************************************************)
(* Pages for the File-Tree Label Stripper.                                 *)
(***************************************************************************)
FileTreePalette ==
    {Element("starlight-file-tree", <<>>, "", "", <<>>),
     Element("span", <<"sr-only">>, "", "", <<>>),
     Element("span", <<>>, "", "", <<>>),
     Text(<<"a">>)}

InitFileTree ==
    \/ InitBypassed
    \/ InitWith(PlainEntries(Pages(FileTreePalette, MaxTreeNodes)),
                {FALSE}, BOOLEAN, NoOptions, {<<"a">>})

SpecFileTree == InitFileTree /\ [][Next]_vars

(***************************************************************************)
(* Pages for the Code-Block Normalizer: one Expressive Code frame with an  *)
(* optional caption, an optional pre (with or without data-language), an   *)
(* optional code element and up to MaxLines lines.                         *)
(***************************************************************************)
LineFlags == {"", "ins", "del"}
LineContents == {"text", "indented", "nested"}
LineKinds == [flag : LineFlags, content : LineContents]

LineText(i) == IF i % 2 = 1 THEN <<"f", "o", "o">> ELSE <<"b", "a", "r">>

Line(kind, i) ==
    LET cls == IF kind.flag = "" THEN <<"ec-line">> ELSE <<"ec-line", kind.flag>>
        run == El("span", <<>>, <<Tx(LineText(i))>>)
        inner ==
            CASE kind.content = "text" -> <<run>>
              [] kind.content = "indented" ->
                    <<El("span", <<"indent">>, <<Tx(<<" ">>)>>), run>>
              [] kind.content = "nested" -> <<El("span", <<>>, <<run>>)>>
    IN El("div", cls, <<El("div", <<"code">>, inner)>>)

Captions == {"none", "title", "title+label"}
PreKinds == {"none", "", "python", "diff"}

Frame(caption, pre, hasCode, kinds) ==
    LET lines == [i \in DOMAIN kinds |-> Line(kinds[i], i)]
        code == IF hasCode THEN <<El("code", <<>>, lines)>> ELSE <<>>
        body == IF pre = "none" THEN code
                ELSE <<Markup(Element("pre", <<>>, "", pre, <<>>), code)>>
        title == El("span", <<"title">>, <<Tx(<<"t">>)>>)
        label == El("span", <<"sr-only">>, <<Tx(<<"T">>)>>)
        head == CASE caption = "none" -> <<>>
                  [] caption = "title" -> <<El("figcaption", <<>>, <<title>>)>>
                  [] caption = "title+label" ->
                        <<El("figcaption", <<>>, <<title, label>>)>>
    IN El("div", <<"expressive-code">>, <<El("figure", <<"frame">>, head \o body)>>)

CodePages ==
    {Fragment(<<Paragraph(<<"a">>), Frame(c, p, k, ls)>>) :
        c \in Captions, p \in PreKinds, k \in BOOLEAN,
        ls \in UNION {[1..n -> LineKinds] : n \in 0..MaxLines}}

InitCode ==
    \/ InitBypassed
    \/ InitWith(PlainEntries(CodePages), {FALSE}, BOOLEAN, NoOptions, {<<"a">>})

SpecCode == InitCode /\ [][Next]_vars

(***************************************************************************)
(* Pages for the Tabs Flattener: a starlight-tabs widget between two       *)
(* paragraphs, with n tabs and m panels, and optionally a second widget    *)
(* inside one of its panels.                                               *)
(***************************************************************************)
Letters == <<"a", "b", "c", "d", "e", "f", "g", "h", "i", "j">>
TabKinds == {"plain", "icon", "split"}

Tab(kind, i) ==
    LET c == Letters[i]
        kids ==
            CASE kind = "plain" -> <<Tx(<<c>>)>>
              [] kind = "icon" -> <<El("svg", <<>>, <<>>), Tx(<<" ", c, "\n">>)>>
              [] kind = "split" -> <<Tx(<<" ">>), Tx(<<c>>), Tx(<<"x", " ">>)>>
    IN Markup(Element("a", <<>>, "tab", "", <<>>), kids)

Panel(content) == Markup(Element("section", <<>>, "tabpanel", "", <<>>), content)

Tabs(tabs, panels) ==
    El("starlight-tabs", <<>>, <<El("ul", <<"tablist">>, tabs)>> \o panels)

InnerTabs(n, m) ==
    Tabs([i \in 1..n |-> Tab("plain", MaxTabs + 1 + i)],
         [j \in 1..m |-> Panel(<<Paragraph(<<"q">>)>>)])

\* inner = <<k, n, m>>: panel k holds a widget of n tabs and m panels
\* (k = 0: no inner widget).
OuterTabs(kinds, m, inner) ==
    Tabs([i \in DOMAIN kinds |-> Tab(kinds[i], i)],
         [j \in 1..m |->
            Panel(IF j = inner[1]
                  THEN <<InnerTabs(inner[2], inner[3]), Paragraph(<<"p">>)>>
                  ELSE <<Paragraph(<<"p">>)>>)])

TabsPages ==
    {Fragment(<<Paragraph(<<"a">>), OuterTabs(kinds, np, inner), Paragraph(<<"z">>)>>) :
        kinds \in UNION {[1..n -> TabKinds] : n \in 0..MaxTabs},
        np \in 0..MaxTabs,
        inner \in {<<0, 0, 0>>} \cup ((1..MaxTabs) \X (0..MaxTabs) \X (0..MaxTabs))}

InitTabs ==
    \/ InitBypassed
    \/ InitWith(PlainEntries(TabsPages), {FALSE}, BOOLEAN, NoOptions, {<<"a">>})

SpecTabs == InitTabs /\ [][Next]_vars

(***************************************************************************)
(* Texts for the final string pass and the raw-body passthrough.           *)
(***************************************************************************)
Characters == {"a", " ", "\n"}
Texts == UNION {[1..n -> Characters] : n \in 0..MaxTextLen}

WhitespaceOptions == Options({"whitespace"}, {<<>>})

InitText ==
    \/ InitWith({Entry(mdx, TRUE, body, EmptyTree) : mdx \in BOOLEAN, body \in Texts}
                    \cup {Entry(mdx, FALSE, <<>>, EmptyTree) : mdx \in BOOLEAN},
                BOOLEAN, BOOLEAN, WhitespaceOptions, {<<"a">>})
    \/ InitWith(PlainEntries({Fragment(<<Paragraph(<<"a">>)>>)}),
                {FALSE}, BOOLEAN, WhitespaceOptions, Texts)

SpecText == InitText /\ [][Next]_vars

Spec == SpecText

(***************************************************************************)
(* Vocabulary of the properties.                                           *)
(***************************************************************************)
RECURSIVE Descendants(_, _)
Descendants(h, id) ==
    {id} \cup UNION {Descendants(h, h[id].children[k]) : k \in DOMAIN h[id].children}

InTree(h) == Descendants(h, RootId)

\* The places (parent, index) at which node id is a child, among the nodes
\* of the tree.
Places(h, id) ==
    {qi \in InTree(h) \X (1..Len(h)) :
        qi[2] \in DOMAIN h[qi[1]].children /\ h[qi[1]].children[qi[2]] = id}

WellFormed(h) ==
    \A id \in InTree(h) :
        Cardinality(Places(h, id)) = IF id = RootId THEN 0 ELSE 1

\* What the Minify Filter is to remove under configuration cfg.
Removable(cfg, node) ==
    /\ node.type = "element"
    /\ \/ \E i \in DOMAIN cfg.customSelectors : matches(cfg.customSelectors[i], node)
       \/ cfg.details /\ node.tagName = "details"
       \/ /\ HasClass(node, "starlight-aside")
          /\ \/ cfg.note /\ HasClass(node, "starlight-aside--note")
             \/ cfg.tip /\ HasClass(node, "starlight-aside--tip")
             \/ cfg.caution /\ HasClass(node, "starlight-aside--caution")
             \/ cfg.danger /\ HasClass(node, "starlight-aside--danger")

\* The nodes with no removable node on the path from the root to them.
RECURSIVE Outside(_, _, _)
Outside(h, cfg, id) ==
    {id} \cup UNION {Outside(h, cfg, k) :
                        k \in {c \in Range(h[id].children) : ~Removable(cfg, h[c])}}

MinifyFilterRan == pc = "minified" /\ shouldMinify

(***************************************************************************)
(* C1: after the Minify Filter has run with minification requested, no     *)
(* node left in the tree, at any depth, matches a custom selector, is a    *)
(* details element while the details flag is set, or is a .starlight-aside *)
(* of a variant whose flag is set.                                         *)
(***************************************************************************)
C1_NoRemovableNodeLeft ==
    MinifyFilterRan => \A id \in InTree(tree) : ~Removable(minify, tree[id])

\* An aside of a flagged variant was below the top level of the page, and a
\* sibling of its parent is left.
C1_Witness ==
    /\ MinifyFilterRan
    /\ \E id \in InTree(prev) :
          /\ HasClass(prev[id], "starlight-aside")
          /\ Removable(minify, prev[id])
          /\ id \notin Range(prev[RootId].children)
    /\ Cardinality(InTree(tree)) > 1

(***************************************************************************)
(* C2: when minification is not requested the Minify Filter leaves the     *)
(* tree as it was, whatever the flags and selectors are.                   *)
(***************************************************************************)
C2_IdentityWhenNotRequested ==
    pc = "minified" /\ ~shouldMinify => tree = prev

\* Not requested, on a page that holds something the flags would remove.
C2_Witness ==
    /\ pc = "minified"
    /\ ~shouldMinify
    /\ \E id \in InTree(tree) : Removable(minify, tree[id])
    /\ minify.customSelectors # <<>>

(***************************************************************************)
(* C10: the Minify Filter removes the matched subtrees and nothing else:   *)
(* a node that is not removable and has no removable ancestor is still in  *)
(* the tree, and its children are its former children that are not         *)
(* removable, in their former order; in particular a container all of      *)
(* whose children were removed stays.                                      *)
(***************************************************************************)
C10_OnlyMatchedSubtreesRemoved ==
    MinifyFilterRan =>
        \A id \in Outside(prev, minify, RootId) :
            /\ id \in InTree(tree)
            /\ tree[id].children =
                  SelectSeq(prev[id].children,
                            LAMBDA k : ~Removable(minify, prev[k]))

(***************************************************************************)
(* C6: after the File-Tree Label Stripper no descendant of a file-tree     *)
(* widget matches .sr-only, whether or not minification was requested.     *)
(***************************************************************************)
FileTrees(h) == {w \in InTree(h) : h[w].tagName = "starlight-file-tree"}

C6_NoLabelLeftInFileTree ==
    pc = "fileTree" =>
        \A w \in FileTrees(tree) :
            \A d \in Descendants(tree, w) \ {w} : ~HasClass(tree[d], "sr-only")

\* Without minification, a widget that held a label below something else
\* and still holds something.
C6_Witness ==
    /\ pc = "fileTree"
    /\ ~shouldMinify
    /\ \E w \in FileTrees(tree) :
          /\ \E d \in Descendants(prev, w) \ ({w} \cup Range(prev[w].children)) :
                HasClass(prev[d], "sr-only")
          /\ Descendants(tree, w) # {w}

(***************************************************************************)
(* Vocabulary of the code-sample properties.                               *)
(***************************************************************************)
Frames(h) == Range(selectAll(".expressive-code", h, RootId))
PreOf(h, f) == select("pre", h, f)
CodeOf(h, f) == select("code", h, f)

HasLanguage(h, f) ==
    PreOf(h, f) # 0 /\ CodeOf(h, f) # 0 /\ h[PreOf(h, f)].dataLanguage # ""
LanguageOf(h, f) == h[PreOf(h, f)].dataLanguage

\* The line wrappers of the code element flagged ins or del.
FlaggedLines(h, code) ==
    {k \in Range(h[code].children) :
        /\ h[k].type = "element"
        /\ h[k].tagName = "div"
        /\ HasClass(h[k], "ec-line")
        /\ HasClass(h[k], "ins") \/ HasClass(h[k], "del")}

\* The first text run of a line: the text that opens its first span other
\* than the indentation (0 when that span opens with an element).
FirstTextRun(h, line) ==
    LET span == select("span:not(.indent)", h, line)
    IN IF span # 0 /\ h[span].children # <<>> /\ h[h[span].children[1]].type = "text"
       THEN h[span].children[1] ELSE 0

(***************************************************************************)
(* C3: for every code sample whose declared language is diff, or whose     *)
(* code element has lines flagged ins or del, the code element gets the    *)
(* class language-diff and the first text run of every flagged line is     *)
(* prefixed with + (ins) or - (del); so data-language="diff" with lines    *)
(* foo (ins) and bar (del) gives +foo and -bar.                            *)
(***************************************************************************)
C3_DiffLinesMarked ==
    pc = "code" =>
        \A f \in Frames(prev) :
            HasLanguage(prev, f)
            /\ (LanguageOf(prev, f) = "diff"
                \/ FlaggedLines(prev, CodeOf(prev, f)) # {})
            => /\ "language-diff" \in Range(tree[CodeOf(prev, f)].className)
               /\ \A line \in FlaggedLines(prev, CodeOf(prev, f)) :
                     LET run == FirstTextRun(prev, line)
                         marker == IF HasClass(prev[line], "ins") THEN "+" ELSE "-"
                     IN run # 0 => tree[run].value = <<marker>> \o prev[run].value

(***************************************************************************)
(* C7: a code sample whose pre declares a language L other than diff and   *)
(* whose code element has no flagged line gets the class language-L on its *)
(* code element and no language-diff; when the pre, the code element or    *)
(* the language attribute is missing, no class token is added anywhere.    *)
(***************************************************************************)
C7_LanguageClass ==
    pc = "code" =>
        \A f \in Frames(prev) :
            IF HasLanguage(prev, f)
            THEN LanguageOf(prev, f) # "diff"
                 /\ FlaggedLines(prev, CodeOf(prev, f)) = {}
                 => /\ tree[CodeOf(prev, f)].className =
                          Append(prev[CodeOf(prev, f)].className,
                                 "language-" \o LanguageOf(prev, f))
                    /\ "language-diff" \notin Range(tree[CodeOf(prev, f)].className)
            ELSE \A id \in DOMAIN prev : tree[id].className = prev[id].className

\* A python sample with lines, none of them flagged.
C7_Witness ==
    /\ pc = "code"
    /\ \E f \in Frames(prev) :
          /\ HasLanguage(prev, f)
          /\ LanguageOf(prev, f) = "python"
          /\ Len(prev[CodeOf(prev, f)].children) > 1
          /\ FlaggedLines(prev, CodeOf(prev, f)) = {}
          /\ "language-python" \in Range(tree[CodeOf(prev, f)].className)

(***************************************************************************)
(* C4: a tabs widget with N elements of role tab and M of role tabpanel    *)
(* among its descendants becomes a list of exactly min(N, M) items; item i *)
(* is the label of the i-th tab followed by the i-th panel, in document    *)
(* order; tabs and panels without a partner are dropped.  This covers      *)
(* N # M, N = 0, M = 0 and a widget inside a panel of another.             *)
(***************************************************************************)
Widgets(h) == Range(selectAll("starlight-tabs", h, RootId))
TabsOf(h, w) == selectAll("[role=tab]", h, w)
PanelsOf(h, w) == selectAll("[role=tabpanel]", h, w)

IsItem(h, li, label, panel) ==
    /\ h[li].tagName = "li"
    /\ Len(h[li].children) = 2
    /\ h[li].children[2] = panel
    /\ LET p == h[h[li].children[1]]
       IN /\ p.tagName = "p"
          /\ Len(p.children) = 1
          /\ h[p.children[1]].type = "text"
          /\ h[p.children[1]].value = label

C4_TabsBecomeList ==
    pc = "tabs" =>
        \A w \in Widgets(prev) :
            LET tabs == TabsOf(prev, w)
                panels == PanelsOf(prev, w)
                items == tree[w].children
            IN /\ tree[w].tagName = "ul"
               /\ Len(items) = Min(Len(tabs), Len(panels))
               /\ \A i \in DOMAIN items :
                     IsItem(tree, items[i], tabLabel(prev, tabs[i]), panels[i])

\* Two widgets, one inside a panel of the other, one of them with more tabs
\* than panels and at least one pair.
C4_Witness ==
    /\ pc = "tabs"
    /\ Cardinality(Widgets(prev)) = 2
    /\ \E w \in Widgets(prev) :
          /\ Len(TabsOf(prev, w)) > Len(PanelsOf(prev, w))
          /\ Len(PanelsOf(prev, w)) > 0
          /\ Len(tree[w].children) = Len(PanelsOf(prev, w))

(***************************************************************************)
(* C9: after each of the four tree transformers the structure is a tree:   *)
(* every node reachable from the root is a child at exactly one place (the *)
(* root at none), also when a tabs widget sits inside a panel of another.  *)
(***************************************************************************)
C9_StillATree ==
    pc \in {"minified", "code", "tabs", "fileTree"} => WellFormed(tree)

(***************************************************************************)
(* C5: with minification requested and the whitespace flag set, the        *)
(* returned text has no two whitespace characters in a row; otherwise it   *)
(* is the serializer's text with only the leading and trailing whitespace  *)
(* taken off.                                                              *)
(***************************************************************************)
IsTrimOf(m, s) ==
    /\ m = <<>> \/ (m[1] \notin Whitespace /\ m[Len(m)] \notin Whitespace)
    /\ \E i \in 0..Len(s) :
          /\ i + Len(m) <= Len(s)
          /\ SubSeq(s, i + 1, i + Len(m)) = m
          /\ \A j \in (1..i) \cup ((i + Len(m) + 1)..Len(s)) : s[j] \in Whitespace

C5_WhitespaceCollapse ==
    pc = "returnedMarkdown" =>
        IF shouldMinify /\ minify.whitespace
        THEN \A i \in 1..(Len(markdown) - 1) :
                ~(markdown[i] \in Whitespace /\ markdown[i + 1] \in Whitespace)
        ELSE IsTrimOf(markdown, stringified)

\* The serializer's text had a run of two whitespace characters between two
\* letters, and the flag was set.
C5_Witness ==
    /\ pc = "returnedMarkdown"
    /\ shouldMinify
    /\ minify.whitespace
    /\ \E i \in 1..(Len(stringified) - 3) :
          /\ stringified[i] \notin Whitespace
          /\ stringified[i + 1] \in Whitespace
          /\ stringified[i + 2] \in Whitespace
          /\ stringified[i + 3] \notin Whitespace
    /\ Len(markdown) = Len(stringified) - 1

(***************************************************************************)
(* C8: entryToSimpleMarkdown bypasses the pipeline exactly when the entry  *)
(* is in the MDX source format: it then returns the raw body as it is,     *)
(* whatever shouldMinify is, and every other entry is rendered and sent    *)
(* through the pipeline.                                                   *)
(***************************************************************************)
RawBody == IF entry.hasBody THEN entry.body ELSE <<>>

====
